---- MODULE Spec2Model ----
(***************************************************************************)
(* NebulaChat room lifecycle: createRoom / joinRoom (lib/auth.ts), the     *)
(* admin operations isRoomAdmin / updateRoomSettings / deleteRoom /        *)
(* removeUserFromRoom / addRoomAdmin (lib/admin.ts), the HTTP handlers of  *)
(* /api/rooms/[id] and /api/rooms/[id]/participants, over the relational   *)
(* store described by the SQL setup scripts (primary keys, foreign keys    *)
(* with ON DELETE CASCADE, and the creator-as-admin trigger).              *)
(*                                                                         *)
(* Every await on the store is one atomic step; the local code between two *)
(* awaits belongs to the step of the preceding await.  Each user session   *)
(* runs one call at a time; calls of different users interleave freely.    *)
(***************************************************************************)
EXTENDS Integers, FiniteSets, Sequences, TLC

\* ---------------------------------------------------------------- bounds
MaxCalls == 3        \* calls started in one behaviour
MaxFaults == 1       \* store errors injected in one behaviour
MaxMessages == 2     \* messages rows ever inserted in one behaviour
MaxTime == 40        \* the clock stops here
MaxEvents == 1       \* notifications or fetches a subscription has pending at once

\* ------------------------------------------------------ program constants
MaxParticipants == 10    \* joinRoom: count >= 10 is "room full"
TypingWindow == 10       \* getTypingUsers: Date.now() - 10000, in seconds
StaleAfter == 30         \* clear_stale_typing_status: INTERVAL '30 seconds'

\* the sessions that have the chat page open
Subscribers == {"u1", "u2"}

\* the session whose chat page is followed step by step
Viewers == {"u1"}

\* message texts
Contents == {"c1", "c2"}

\* the steps by which the clock advances
TickSteps == {5, 30}

Users == {"u1", "u2", "u3"}
Background == {"b1", "b2", "b3", "b4", "b5", "b6", "b7", "b8", "b9"}
RoomIds == {"r1", "r2"}
Passwords == {"pA", "pB"}
None == "none"
NoReply == 0             \* messages.reply_to NULL; message ids count from 1
NoTimer == 0             \* typingTimerRef.current null; a timer fires after second 0
TypingPause == 3         \* handleMessageInputChange: setTimeout(..., 3000), in seconds

\* the steps of the clock while somebody types: shorter than TypingPause
KeySteps == {1, 2}

\* settings objects passed to updateRoomSettings / PUT: a field that is "none" is absent
NoSettings == [name |-> None, description |-> None]
SettingsInputs == {[name |-> "n1", description |-> None],
                   [name |-> None, description |-> "d1"]}

VARIABLES rooms, participants, messages, currentRoom, proc, calls, faults, msgCount,
          now,        \* the clock, in whole seconds
          typing,     \* the user_typing table
          typingLog,  \* every user_typing row as last written, never cleaned up
          sub         \* each session's realtime subscriptions

\* the clock, the typing tables and the subscriptions, which the room
\* operations leave alone
chatState == <<now, typing, typingLog, sub>>

vars == <<rooms, participants, messages, currentRoom, proc, calls, faults, msgCount,
          now, typing, typingLog, sub>>

\* ------------------------------------------------------------- the store

\* rooms.name as written by createRoom: `Room ${roomId.substring(0, 4)}`
DefaultRoomName(id) == "Room " \o id

RoomRow(id, pw, creator) ==
  [id |-> id, password |-> pw, created_by |-> creator,
   name |-> DefaultRoomName(id), description |-> None]

\* users.username of a user id
Username(u) == "name-" \o u

ParticipantRow(r, u, adm) == [room_id |-> r, user_id |-> u, is_admin |-> adm]

RoomExists(r) == \E x \in rooms : x.id = r

ParticipantRows(r, u) == {p \in participants : p.room_id = r /\ p.user_id = u}

RoomParticipants(r) == {p \in participants : p.room_id = r}

RoomMessages(r) == {m \in messages : m.room_id = r}

\* mutant: rooms without its primary key
RoomInsertAllowed_noKey(id) == TRUE

\* rooms: id TEXT PRIMARY KEY
RoomInsertAllowed(id) == ~RoomExists(id)

\* room_participants: PRIMARY KEY (room_id, user_id), room_id REFERENCES rooms(id)
ParticipantInsertAllowed(r, u) == RoomExists(r) /\ ParticipantRows(r, u) = {}

\* messages: room_id REFERENCES rooms(id)
MessageInsertAllowed(r) == RoomExists(r)

\* rooms.is_private BOOLEAN DEFAULT FALSE: no insert of the program names the
\* column
IsPrivate(x) == FALSE

\* messages FOR SELECT USING (EXISTS (SELECT 1 FROM rooms WHERE rooms.id =
\* messages.room_id AND (NOT rooms.is_private OR EXISTS (a room_participants
\* row of the room for auth.uid()))))
MessageSelectPolicy(m, u) ==
  \E x \in rooms :
    /\ x.id = m.room_id
    /\ (~IsPrivate(x) \/ \E p \in participants : p.room_id = m.room_id /\ p.user_id = u)

\* messages FOR INSERT WITH CHECK (user_id = auth.uid() AND EXISTS (a
\* room_participants row of the room for auth.uid())); the sender's user_id is
\* the session's own
MessageInsertPolicy(r, u) == \E p \in participants : p.room_id = r /\ p.user_id = u

\* the messages rows a select of the session sees
MessagesVisibleTo(u) == {m \in messages : MessageSelectPolicy(m, u)}

\* mutant: the trigger is missing
set_creator_as_admin_missing(row) == {}

\* AFTER INSERT ON rooms: the creator becomes a participant with is_admin = TRUE,
\* in the transaction of the insert into rooms.
set_creator_as_admin(row) ==
  IF row.created_by # None
  THEN {ParticipantRow(row.id, row.created_by, TRUE)}
  ELSE {}

\* mutant: room_participants.room_id without ON DELETE CASCADE
ParticipantsAfterRoomDelete_noCascade(r) == participants

\* DELETE FROM rooms WHERE id = r, with ON DELETE CASCADE on
\* room_participants.room_id and messages.room_id.
RoomsAfterDelete(r) == {x \in rooms : x.id # r}
ParticipantsAfterRoomDelete(r) == {p \in participants : p.room_id # r}
MessagesAfterRoomDelete(r) == {m \in messages : m.room_id # r}

\* user_typing: room_id REFERENCES rooms(id) ON DELETE CASCADE
TypingAfterRoomDelete(rows, r) == {x \in rows : x.room_id # r}

\* generate_room_id(): a random id that no rooms row holds (the function loops
\* until it finds one).
generate_room_id == {id \in RoomIds : ~RoomExists(id)}

\* generateRoomPassword(): a random string; nothing looks at the store.
generateRoomPassword == Passwords

\* A store call may answer with an error while the fault budget lasts.
FaultChoice == IF faults < MaxFaults THEN {FALSE, TRUE} ELSE {FALSE}

\* ------------------------------------------------------------- processes

Idle ==
  [pc |-> "idle", op |-> None, api |-> FALSE, room |-> None, pw |-> None,
   target |-> None, settings |-> NoSettings, ret |-> None,
   \* what the call saw or did, recorded for the properties
   flt |-> FALSE, wrote |-> FALSE, factAdmin |-> FALSE, factTargetAdmin |-> FALSE,
   factTargetRow |-> FALSE, factMember |-> FALSE, factMatch |-> FALSE,
   factRoom |-> FALSE, factCount |-> 0, curBefore |-> None,
   insertFailed |-> FALSE,
   \* what a read handed back
   names |-> {}, history |-> <<>>, replyTo |-> NoReply]

\* what the store really holds, read without the code's own queries
HoldsAdminRow(r, u) == ParticipantRow(r, u, TRUE) \in participants
HoldsRow(r, u) == \E p \in participants : p.room_id = r /\ p.user_id = u

\* The code between a call's last await and its return runs without interruption:
\* a finished call hands its result back before any session takes another step.
NoneDone == \A v \in Users : proc[v].pc # "done"

Ready(u, at) == proc[u].pc = at /\ NoneDone

CanStart(u) == Ready(u, "idle") /\ calls < MaxCalls

Begin(u, name, viaApi, r) ==
  [Idle EXCEPT !.op = name, !.api = viaApi, !.room = r, !.curBefore = currentRoom[u]]

\* ----------------------------------------------------------- createRoom

\* createRoom, up to and including `await authClient.rpc('generate_room_id')`
CreateRoomRpc(u) ==
  /\ CanStart(u)
  /\ calls' = calls + 1
  /\ \E fail \in FaultChoice :
       IF fail
       THEN /\ faults' = faults + 1
            /\ proc' = [proc EXCEPT ![u] =
                 [Begin(u, "createRoom", FALSE, None) EXCEPT
                    !.pc = "done", !.ret = "null", !.flt = TRUE]]
       ELSE /\ faults' = faults
            /\ \E id \in generate_room_id, pw \in generateRoomPassword :
                 proc' = [proc EXCEPT ![u] =
                   [Begin(u, "createRoom", FALSE, id) EXCEPT
                      !.pc = "cr_insert", !.pw = pw]]
  /\ UNCHANGED <<rooms, participants, messages, currentRoom, msgCount, chatState>>

\* the insert into rooms (and the trigger it fires)
CreateRoomInsert(u) ==
  /\ Ready(u, "cr_insert")
  /\ \E fail \in FaultChoice :
       LET p == [proc[u] EXCEPT !.factRoom = \E x \in rooms : x.id = proc[u].room]
           row == RoomRow(p.room, p.pw, u)
       IN
       IF fail \/ ~RoomInsertAllowed(p.room)
       THEN /\ faults' = IF fail THEN faults + 1 ELSE faults
            /\ proc' = [proc EXCEPT ![u] =
                 [p EXCEPT !.pc = "done", !.ret = "null", !.flt = @ \/ fail]]
            /\ UNCHANGED <<rooms, participants>>
       ELSE /\ faults' = faults
            /\ rooms' = rooms \cup {row}
            /\ participants' = participants \cup set_creator_as_admin(row)
            /\ proc' = [proc EXCEPT ![u] =
                 [p EXCEPT !.pc = "cr_participant", !.wrote = TRUE]]
  /\ UNCHANGED <<messages, currentRoom, calls, msgCount, chatState>>

\* the insert of the creator into room_participants; its error is only logged
CreateRoomParticipant(u) ==
  /\ Ready(u, "cr_participant")
  /\ \E fail \in FaultChoice :
       LET p == proc[u] IN
       IF fail \/ ~ParticipantInsertAllowed(p.room, u)
       THEN /\ faults' = IF fail THEN faults + 1 ELSE faults
            /\ proc' = [proc EXCEPT ![u] =
                 [p EXCEPT !.pc = "done", !.ret = "room", !.flt = @ \/ fail,
                           !.insertFailed = TRUE]]
            /\ UNCHANGED participants
       ELSE /\ faults' = faults
            /\ participants' = participants \cup {ParticipantRow(p.room, u, FALSE)}
            /\ proc' = [proc EXCEPT ![u] = [p EXCEPT !.pc = "done", !.ret = "room"]]
  /\ UNCHANGED <<rooms, messages, currentRoom, calls, msgCount, chatState>>

\* ------------------------------------------------------------- joinRoom

\* mutant: the room is looked up by id only
RoomLookup_idOnly(r, pw) == Cardinality({x \in rooms : x.id = r}) = 1

\* select id from rooms where id = roomId and password = password, .single()
RoomLookup(r, pw) == Cardinality({x \in rooms : x.id = r /\ x.password = pw}) = 1

\* mutant: the caller's own row is never found
existingParticipant_never(r, u) == FALSE

\* select user_id from room_participants where room_id, user_id, .single()
existingParticipant(r, u) == Cardinality(ParticipantRows(r, u)) = 1

\* select ... { count: 'exact' } where room_id = roomId
ParticipantCount(r) == Cardinality(RoomParticipants(r))

\* mutant: the capacity test is off by one
RoomIsFull_offByOne(count) == count > MaxParticipants

RoomIsFull(count) == count >= MaxParticipants

JoinRoomLookup(u) ==
  /\ CanStart(u)
  /\ calls' = calls + 1
  /\ \E r \in RoomIds, pw \in Passwords :
       LET b == [Begin(u, "joinRoom", FALSE, r) EXCEPT
                   !.pw = pw, !.factRoom = RoomExists(r),
                   !.factMatch = \E x \in rooms : x.id = r /\ x.password = pw]
       IN
       IF RoomLookup(r, pw)
       THEN proc' = [proc EXCEPT ![u] = [b EXCEPT !.pc = "jr_check"]]
       ELSE proc' = [proc EXCEPT ![u] = [b EXCEPT !.pc = "done", !.ret = "false"]]
  /\ UNCHANGED <<rooms, participants, messages, currentRoom, faults, msgCount, chatState>>

\* the lookup of the caller's own row; an error of the lookup is only logged and
\* the call goes on as if there were no row
JoinRoomCheck(u) ==
  /\ Ready(u, "jr_check")
  /\ \E fail \in FaultChoice :
       LET p == [proc[u] EXCEPT !.factMember = HoldsRow(proc[u].room, u)] IN
       /\ faults' = IF fail THEN faults + 1 ELSE faults
       /\ IF ~fail /\ existingParticipant(p.room, u)
          THEN proc' = [proc EXCEPT ![u] = [p EXCEPT !.pc = "done", !.ret = "true"]]
          ELSE proc' = [proc EXCEPT ![u] = [p EXCEPT !.pc = "jr_count", !.flt = @ \/ fail]]
  /\ UNCHANGED <<rooms, participants, messages, currentRoom, calls, msgCount, chatState>>

JoinRoomCount(u) ==
  /\ Ready(u, "jr_count")
  /\ \E fail \in FaultChoice :
       LET p == [proc[u] EXCEPT !.factCount = Cardinality(RoomParticipants(proc[u].room))] IN
       /\ faults' = IF fail THEN faults + 1 ELSE faults
       /\ IF fail
          THEN proc' = [proc EXCEPT ![u] =
                 [p EXCEPT !.pc = "done", !.ret = "false", !.flt = TRUE]]
          ELSE IF RoomIsFull(ParticipantCount(p.room))
               THEN proc' = [proc EXCEPT ![u] = [p EXCEPT !.pc = "done", !.ret = "false"]]
               ELSE proc' = [proc EXCEPT ![u] = [p EXCEPT !.pc = "jr_insert"]]
  /\ UNCHANGED <<rooms, participants, messages, currentRoom, calls, msgCount, chatState>>

JoinRoomInsert(u) ==
  /\ Ready(u, "jr_insert")
  /\ \E fail \in FaultChoice :
       LET p == proc[u] IN
       IF fail \/ ~ParticipantInsertAllowed(p.room, u)
       THEN /\ faults' = IF fail THEN faults + 1 ELSE faults
            /\ proc' = [proc EXCEPT ![u] =
                 [p EXCEPT !.pc = "done", !.ret = "false", !.flt = @ \/ fail]]
            /\ UNCHANGED <<participants, currentRoom>>
       ELSE /\ faults' = faults
            /\ participants' = participants \cup {ParticipantRow(p.room, u, FALSE)}
            /\ currentRoom' = [currentRoom EXCEPT ![u] = p.room]
            /\ proc' = [proc EXCEPT ![u] =
                 [p EXCEPT !.pc = "done", !.ret = "true", !.wrote = TRUE]]
  /\ UNCHANGED <<rooms, messages, calls, msgCount, chatState>>


\* -------------------------------------------------- lib/admin.ts operations

\* mutant: any participant counts as an admin
isRoomAdmin_anyParticipant(r, u) == Cardinality(ParticipantRows(r, u)) = 1

\* isRoomAdmin: select is_admin ... .single(); an error or no row gives false
isRoomAdmin(r, u) ==
  /\ Cardinality(ParticipantRows(r, u)) = 1
  /\ \A p \in ParticipantRows(r, u) : p.is_admin = TRUE

\* `targetUserData?.is_admin` after select is_admin ... .single()
TargetIsAdmin(r, t) ==
  /\ Cardinality(ParticipantRows(r, t)) = 1
  /\ \A p \in ParticipantRows(r, t) : p.is_admin = TRUE

Denied(viaApi) == IF viaApi THEN "403" ELSE "false"
StoreError(viaApi) == IF viaApi THEN "500" ELSE "false"
Success(viaApi) == IF viaApi THEN "200" ELSE "true"

\* update(settings).eq('id', roomId): only the fields present are overwritten
ApplySettings(x, st) ==
  [x EXCEPT !.name = IF st.name # None THEN st.name ELSE @,
            !.description = IF st.description # None THEN st.description ELSE @]

RoomsAfterUpdate(r, st) ==
  {IF x.id = r THEN ApplySettings(x, st) ELSE x : x \in rooms}

\* update({ is_admin: true }).eq('room_id', roomId).eq('user_id', newAdminId)
ParticipantsAfterPromote(r, t) ==
  {IF p.room_id = r /\ p.user_id = t THEN [p EXCEPT !.is_admin = TRUE] ELSE p :
     p \in participants}

\* delete().eq('room_id', roomId).eq('user_id', userIdToRemove)
ParticipantsAfterRemove(r, t) ==
  {p \in participants : ~(p.room_id = r /\ p.user_id = t)}

\* The first await of an admin-only operation: `await isRoomAdmin(roomId, userId)`
\* and the early return that follows it.
AdminGate(u, name, viaApi, r, t, st, next) ==
  /\ CanStart(u)
  /\ calls' = calls + 1
  /\ LET b == [Begin(u, name, viaApi, r) EXCEPT
                 !.target = t, !.settings = st, !.factAdmin = HoldsAdminRow(r, u)]
     IN
     IF isRoomAdmin(r, u)
     THEN proc' = [proc EXCEPT ![u] = [b EXCEPT !.pc = next]]
     ELSE proc' = [proc EXCEPT ![u] = [b EXCEPT !.pc = "done", !.ret = Denied(viaApi)]]
  /\ UNCHANGED <<rooms, participants, messages, currentRoom, faults, msgCount, chatState>>

\* mutant: an error of the store does not end the call
Finish_goesOn(u, fail, next, result) ==
  proc' = [proc EXCEPT ![u] =
    [@ EXCEPT !.pc = next, !.ret = IF fail THEN StoreError(proc[u].api) ELSE result,
              !.flt = @ \/ fail,
              !.wrote = @ \/ <<rooms', participants', messages'>>
                             # <<rooms, participants, messages>>]]

\* the outcome of a store write of a call: an error ends the call
Finish(u, fail, next, result) ==
  proc' = [proc EXCEPT ![u] =
    IF fail
    THEN [@ EXCEPT !.pc = "done", !.ret = StoreError(proc[u].api), !.flt = TRUE]
    ELSE [@ EXCEPT !.pc = next, !.ret = result,
                   !.wrote = @ \/ <<rooms', participants', messages'>>
                                  # <<rooms, participants, messages>>]]

\* updateRoomSettings(roomId, userId, settings)
UpdateRoomSettingsCheck(u) ==
  \E r \in RoomIds, st \in SettingsInputs :
    AdminGate(u, "updateRoomSettings", FALSE, r, None, st, "us_update")

UpdateRoomSettingsUpdate(u) ==
  /\ Ready(u, "us_update")
  /\ \E fail \in FaultChoice :
       /\ faults' = IF fail THEN faults + 1 ELSE faults
       /\ rooms' = IF fail THEN rooms
                   ELSE RoomsAfterUpdate(proc[u].room, proc[u].settings)
       /\ UNCHANGED <<participants, messages>>
       /\ Finish(u, fail, "done", "true")
  /\ UNCHANGED <<currentRoom, calls, msgCount, chatState>>

\* deleteRoom(roomId, userId): messages, then participants, then the room
DeleteRoomCheck(u) ==
  \E r \in RoomIds : AdminGate(u, "deleteRoom", FALSE, r, None, NoSettings, "dr_messages")

DeleteRoomMessages(u) ==
  /\ Ready(u, "dr_messages")
  /\ \E fail \in FaultChoice :
       /\ faults' = IF fail THEN faults + 1 ELSE faults
       /\ messages' = IF fail THEN messages ELSE messages \ RoomMessages(proc[u].room)
       /\ UNCHANGED <<rooms, participants>>
       /\ Finish(u, fail, "dr_participants", None)
  /\ UNCHANGED <<currentRoom, calls, msgCount, chatState>>

DeleteRoomParticipants(u) ==
  /\ Ready(u, "dr_participants")
  /\ \E fail \in FaultChoice :
       /\ faults' = IF fail THEN faults + 1 ELSE faults
       /\ participants' = IF fail THEN participants
                          ELSE participants \ RoomParticipants(proc[u].room)
       /\ UNCHANGED <<rooms, messages>>
       /\ Finish(u, fail, "dr_room", None)
  /\ UNCHANGED <<currentRoom, calls, msgCount, chatState>>

DeleteRoomRow(u) ==
  /\ Ready(u, "dr_room")
  /\ \E fail \in FaultChoice :
       /\ faults' = IF fail THEN faults + 1 ELSE faults
       /\ rooms' = IF fail THEN rooms ELSE RoomsAfterDelete(proc[u].room)
       /\ participants' = IF fail THEN participants
                          ELSE ParticipantsAfterRoomDelete(proc[u].room)
       /\ messages' = IF fail THEN messages ELSE MessagesAfterRoomDelete(proc[u].room)
       /\ typing' = IF fail THEN typing ELSE TypingAfterRoomDelete(typing, proc[u].room)
       /\ typingLog' = IF fail THEN typingLog
                       ELSE TypingAfterRoomDelete(typingLog, proc[u].room)
       /\ Finish(u, fail, "done", "true")
  /\ UNCHANGED <<currentRoom, calls, msgCount, now, sub>>

\* removeUserFromRoom(roomId, adminId, userIdToRemove)
RemoveUserCheck(u) ==
  \E r \in RoomIds, t \in Users :
    IF u = t
    THEN /\ CanStart(u)
         /\ calls' = calls + 1
         /\ proc' = [proc EXCEPT ![u] =
              [Begin(u, "removeUserFromRoom", FALSE, r) EXCEPT
                 !.target = t, !.factAdmin = HoldsAdminRow(r, u),
                 !.pc = "done", !.ret = "false"]]
         /\ UNCHANGED <<rooms, participants, messages, currentRoom, faults, msgCount,
                         chatState>>
    ELSE AdminGate(u, "removeUserFromRoom", FALSE, r, t, NoSettings, "ru_target")

\* the lookup of the target's row; only `data` is read, an error leaves it empty
TargetLookup(u, at, next) ==
  /\ Ready(u, at)
  /\ \E fail \in FaultChoice :
       LET p == [proc[u] EXCEPT
                   !.factTargetRow = HoldsRow(proc[u].room, proc[u].target),
                   !.factTargetAdmin = HoldsAdminRow(proc[u].room, proc[u].target)]
       IN
       /\ faults' = IF fail THEN faults + 1 ELSE faults
       /\ IF ~fail /\ TargetIsAdmin(p.room, p.target)
          THEN proc' = [proc EXCEPT ![u] = [p EXCEPT !.pc = "done", !.ret = Denied(p.api)]]
          ELSE proc' = [proc EXCEPT ![u] = [p EXCEPT !.pc = next, !.flt = @ \/ fail]]
  /\ UNCHANGED <<rooms, participants, messages, currentRoom, calls, msgCount, chatState>>

RemoveTarget(u, at) ==
  /\ Ready(u, at)
  /\ \E fail \in FaultChoice :
       /\ faults' = IF fail THEN faults + 1 ELSE faults
       /\ participants' = IF fail THEN participants
                          ELSE ParticipantsAfterRemove(proc[u].room, proc[u].target)
       /\ UNCHANGED <<rooms, messages>>
       /\ Finish(u, fail, "done", Success(proc[u].api))
  /\ UNCHANGED <<currentRoom, calls, msgCount, chatState>>

RemoveUserTarget(u) == TargetLookup(u, "ru_target", "ru_delete")

RemoveUserDelete(u) == RemoveTarget(u, "ru_delete")

\* addRoomAdmin(roomId, currentAdminId, newAdminId)
AddRoomAdminCheck(u) ==
  \E r \in RoomIds, t \in Users :
    AdminGate(u, "addRoomAdmin", FALSE, r, t, NoSettings, "aa_update")

Promote(u, at) ==
  /\ Ready(u, at)
  /\ \E fail \in FaultChoice :
       /\ faults' = IF fail THEN faults + 1 ELSE faults
       /\ participants' = IF fail THEN participants
                          ELSE ParticipantsAfterPromote(proc[u].room, proc[u].target)
       /\ UNCHANGED <<rooms, messages>>
       /\ Finish(u, fail, "done", Success(proc[u].api))
  /\ UNCHANGED <<currentRoom, calls, msgCount, chatState>>

AddRoomAdminUpdate(u) == Promote(u, "aa_update")

\* ------------------------------------------------ /api/rooms/[id] handlers

\* PUT: update({ name, description }) after the admin check
PutRoomCheck(u) ==
  \E r \in RoomIds, st \in SettingsInputs :
    AdminGate(u, "PUT room", TRUE, r, None, st, "put_update")

PutRoomUpdate(u) ==
  /\ Ready(u, "put_update")
  /\ \E fail \in FaultChoice :
       /\ faults' = IF fail THEN faults + 1 ELSE faults
       /\ rooms' = IF fail THEN rooms
                   ELSE RoomsAfterUpdate(proc[u].room, proc[u].settings)
       /\ UNCHANGED <<participants, messages>>
       /\ Finish(u, fail, "done", "200")
  /\ UNCHANGED <<currentRoom, calls, msgCount, chatState>>

\* DELETE: participants, then messages, then the room
HttpDeleteRoomCheck(u) ==
  \E r \in RoomIds : AdminGate(u, "DELETE room", TRUE, r, None, NoSettings, "hd_participants")

HttpDeleteRoomParticipants(u) ==
  /\ Ready(u, "hd_participants")
  /\ \E fail \in FaultChoice :
       /\ faults' = IF fail THEN faults + 1 ELSE faults
       /\ participants' = IF fail THEN participants
                          ELSE participants \ RoomParticipants(proc[u].room)
       /\ UNCHANGED <<rooms, messages>>
       /\ Finish(u, fail, "hd_messages", None)
  /\ UNCHANGED <<currentRoom, calls, msgCount, chatState>>

HttpDeleteRoomMessages(u) ==
  /\ Ready(u, "hd_messages")
  /\ \E fail \in FaultChoice :
       /\ faults' = IF fail THEN faults + 1 ELSE faults
       /\ messages' = IF fail THEN messages ELSE messages \ RoomMessages(proc[u].room)
       /\ UNCHANGED <<rooms, participants>>
       /\ Finish(u, fail, "hd_room", None)
  /\ UNCHANGED <<currentRoom, calls, msgCount, chatState>>

HttpDeleteRoomRow(u) ==
  /\ Ready(u, "hd_room")
  /\ \E fail \in FaultChoice :
       /\ faults' = IF fail THEN faults + 1 ELSE faults
       /\ rooms' = IF fail THEN rooms ELSE RoomsAfterDelete(proc[u].room)
       /\ participants' = IF fail THEN participants
                          ELSE ParticipantsAfterRoomDelete(proc[u].room)
       /\ messages' = IF fail THEN messages ELSE MessagesAfterRoomDelete(proc[u].room)
       /\ typing' = IF fail THEN typing ELSE TypingAfterRoomDelete(typing, proc[u].room)
       /\ typingLog' = IF fail THEN typingLog
                       ELSE TypingAfterRoomDelete(typingLog, proc[u].room)
       /\ Finish(u, fail, "done", "200")
  /\ UNCHANGED <<currentRoom, calls, msgCount, now, sub>>

\* .single(): the row when exactly one row matches, an error otherwise
Single(rows, fail) ==
  IF fail \/ Cardinality(rows) # 1
  THEN [error |-> TRUE, data |-> {}]
  ELSE [error |-> FALSE, data |-> rows]

\* the body of the 200 answer of GET
RoomDetails(x) ==
  [id |-> x.id, name |-> x.name, description |-> x.description, createdBy |-> x.created_by]

\* GET /api/rooms/[id]: select ... eq('id', roomId).single(); an error is 500,
\* no data is 404, otherwise 200 with the details
GetRoom(u) ==
  /\ CanStart(u)
  /\ calls' = calls + 1
  /\ \E r \in RoomIds, fail \in FaultChoice :
       LET res == Single({x \in rooms : x.id = r}, fail)
           b == [Begin(u, "GET room", TRUE, r) EXCEPT
                   !.pc = "done", !.flt = fail, !.factRoom = RoomExists(r)]
       IN
       /\ faults' = IF fail THEN faults + 1 ELSE faults
       /\ proc' = [proc EXCEPT ![u] =
            IF res.error THEN [b EXCEPT !.ret = "500"]
            ELSE IF res.data = {} THEN [b EXCEPT !.ret = "404"]
            ELSE [b EXCEPT !.ret = "200",
                           !.history = <<RoomDetails(CHOOSE x \in res.data : TRUE)>>]]
  /\ UNCHANGED <<rooms, participants, messages, currentRoom, msgCount, chatState>>

\* ----------------------------------- /api/rooms/[id]/participants handlers

\* DELETE { adminId, userId }: no test of adminId = userId
HttpRemoveCheck(u) ==
  \E r \in RoomIds, t \in Users :
    AdminGate(u, "DELETE participant", TRUE, r, t, NoSettings, "hr_target")

HttpRemoveTarget(u) == TargetLookup(u, "hr_target", "hr_delete")

HttpRemoveDelete(u) == RemoveTarget(u, "hr_delete")

\* POST { adminId, newAdminId }
PostAdminCheck(u) ==
  \E r \in RoomIds, t \in Users :
    AdminGate(u, "POST participant", TRUE, r, t, NoSettings, "pa_update")

PostAdminUpdate(u) == Promote(u, "pa_update")

\* ------------------------------------------------- the realtime channel

\* One session's subscriptions.  msg: the handle subscribeToMessages returned
\* ("joined": a channel, "mock": the callback sits in mockSubscribers); typ: the
\* channel subscribeToTypingStatus returned, for `room`.  msgInbox / typInbox:
\* notifications the channel has not handed over yet.  fetching: getTypingUsers
\* calls of the subscription that have not resolved; orphaned: such calls of a
\* subscription that has been unsubscribed meanwhile.
NoSubscription ==
  [msg |-> "none", typ |-> "none", room |-> None, msgInbox |-> 0, typInbox |-> 0,
   fetching |-> 0, orphaned |-> 0,
   \* the chat page: where fetchInitialData stands, the answer of getMessages on
   \* its way, the `messages` and `typingUsers` state of the component, and the
   \* answers of getTypingUsers whose callback has not run yet
   view |-> "closed", fetched |-> <<>>, shown |-> <<>>, typingUsers |-> {},
   typReplies |-> {},
   \* the `isTyping` state of the component and the time at which the timer
   \* of typingTimerRef fires
   isTyping |-> FALSE, timer |-> NoTimer,
   \* recorded for the properties: the ids handed to the message callback and
   \* the ids of the history that was put on display
   got |-> {}, hist |-> {},
   \* recorded for the properties
   late |-> {}, repeatChanged |-> FALSE]

\* postgres_changes INSERT on messages, no filter: every joined channel is told
CanNotifyMessage == \A v \in Users : sub[v].msg = "joined" => sub[v].msgInbox < MaxEvents

NotifyMessage ==
  [v \in Users |-> IF sub[v].msg = "joined"
                   THEN [sub[v] EXCEPT !.msgInbox = @ + 1] ELSE sub[v]]

\* postgres_changes * on user_typing, filter room_id=eq.roomId
CanNotifyTyping(r) ==
  \A v \in Users : (sub[v].typ = "joined" /\ sub[v].room = r) => sub[v].typInbox < MaxEvents

NotifyTyping(r) ==
  [v \in Users |-> IF sub[v].typ = "joined" /\ sub[v].room = r
                   THEN [sub[v] EXCEPT !.typInbox = @ + 1] ELSE sub[v]]

\* subscribeToMessages(callback): a channel, or mockSubscribers.push(callback)
\* when setting the channel up throws
SubscribeToMessages(u) ==
  /\ sub[u].msg \in {"none", "closed"}
  /\ \E fail \in FaultChoice :
       /\ faults' = IF fail THEN faults + 1 ELSE faults
       /\ sub' = [sub EXCEPT ![u].msg = IF fail THEN "mock" ELSE "joined",
                             ![u].msgInbox = 0]
  /\ UNCHANGED <<rooms, participants, messages, currentRoom, proc, calls, msgCount,
                 now, typing, typingLog>>

\* unsubscribe() of the handle: the channel leaves, or the callback is spliced
\* out of mockSubscribers if indexOf finds it
MessagesUnsubscribed(s) ==
  IF s.msg \in {"joined", "mock"} THEN [s EXCEPT !.msg = "closed", !.msgInbox = 0] ELSE s

UnsubscribeMessages(u) ==
  /\ sub[u].msg \in {"joined", "mock", "closed"}
  /\ sub' = [sub EXCEPT ![u] =
       [MessagesUnsubscribed(@) EXCEPT
          !.repeatChanged = @ \/ (sub[u].msg = "closed" /\ MessagesUnsubscribed(sub[u]) # sub[u])]]
  /\ UNCHANGED <<rooms, participants, messages, currentRoom, proc, calls, faults,
                 msgCount, now, typing, typingLog>>

\* the channel hands one INSERT to the handler, which calls callback at once
DeliverMessage(u) ==
  /\ sub[u].msg = "joined"
  /\ sub[u].msgInbox > 0
  /\ sub' = [sub EXCEPT ![u].msgInbox = @ - 1]
  /\ UNCHANGED <<rooms, participants, messages, currentRoom, proc, calls, faults,
                 msgCount, now, typing, typingLog>>

\* subscribeToTypingStatus(roomId, currentUserId, callback), called by the chat
\* page of the session's room: starts getTypingUsers(...).then(callback) and
\* joins the channel
SubscribeToTypingStatus(u) ==
  /\ sub[u].typ \in {"none", "closed"}
  /\ sub[u].fetching + sub[u].orphaned < MaxEvents
  /\ currentRoom[u] # None
  /\ sub' = [sub EXCEPT ![u].typ = "joined", ![u].room = currentRoom[u],
                        ![u].typInbox = 0, ![u].fetching = @ + 1]
  /\ UNCHANGED <<rooms, participants, messages, currentRoom, proc, calls, faults,
                 msgCount, now, typing, typingLog>>

\* unsubscribe() of the typing channel; the getTypingUsers calls under way go on
TypingUnsubscribed(s) ==
  IF s.typ = "joined"
  THEN [s EXCEPT !.typ = "closed", !.typInbox = 0, !.fetching = 0,
                 !.orphaned = @ + s.fetching]
  ELSE s

UnsubscribeTyping(u) ==
  /\ sub[u].typ \in {"joined", "closed"}
  /\ sub' = [sub EXCEPT ![u] =
       [TypingUnsubscribed(@) EXCEPT
          !.repeatChanged = @ \/ (sub[u].typ = "closed" /\ TypingUnsubscribed(sub[u]) # sub[u])]]
  /\ UNCHANGED <<rooms, participants, messages, currentRoom, proc, calls, faults,
                 msgCount, now, typing, typingLog>>

\* the channel hands one change to the handler: `await getTypingUsers(...)` starts
TypingEvent(u) ==
  /\ sub[u].typ = "joined"
  /\ sub[u].typInbox > 0
  /\ sub[u].fetching + sub[u].orphaned < MaxEvents
  /\ sub' = [sub EXCEPT ![u].typInbox = @ - 1, ![u].fetching = @ + 1]
  /\ UNCHANGED <<rooms, participants, messages, currentRoom, proc, calls, faults,
                 msgCount, now, typing, typingLog>>

\* a getTypingUsers call of the subscription resolves: callback(users)
TypingFetchDone(u) ==
  /\ sub[u].fetching > 0
  /\ sub' = [sub EXCEPT ![u].fetching = @ - 1]
  /\ UNCHANGED <<rooms, participants, messages, currentRoom, proc, calls, faults,
                 msgCount, now, typing, typingLog>>

\* the same for a call that was under way when the channel was unsubscribed:
\* nothing cancels its `.then(callback)` / `callback(users)`
OrphanedFetchDone(u) ==
  /\ sub[u].orphaned > 0
  /\ sub' = [sub EXCEPT ![u].orphaned = @ - 1, ![u].late = @ \cup {"typing"}]
  /\ UNCHANGED <<rooms, participants, messages, currentRoom, proc, calls, faults,
                 msgCount, now, typing, typingLog>>

\* ---------------------------------------------------------- lib/messages.ts

\* a messages row as sendMessage inserts it: created_at is the sender's clock;
\* the room is the roomId of the chat page's messageToSend; reply_to is not
\* among the inserted fields.  asked_reply_to records the replyToId the sender
\* asked for, for the properties.
MessageRow(id, r, u, c, at, rep) ==
  [id |-> id, room_id |-> r, user_id |-> u, username |-> Username(u), content |-> c,
   created_at |-> at, reply_to |-> NoReply, asked_reply_to |-> rep]

\* the ids a sender can reply to: messages of the room
ReplyChoices(r) == {NoReply} \cup {m.id : m \in RoomMessages(r)}

\* sendMessage(message): one insert into messages; on an error of the store the
\* call falls back to "mock mode" and hands back a message object all the same
SendMessage(u) ==
  /\ CanStart(u)
  /\ msgCount < MaxMessages
  /\ calls' = calls + 1
  /\ \E r \in RoomIds, c \in Contents, fail \in FaultChoice :
     \E rep \in ReplyChoices(r) :
       LET b == [Begin(u, "sendMessage", FALSE, r) EXCEPT !.replyTo = rep] IN
       /\ faults' = IF fail THEN faults + 1 ELSE faults
       /\ IF fail \/ ~MessageInsertAllowed(r) \/ ~MessageInsertPolicy(r, u)
          THEN /\ UNCHANGED <<messages, msgCount, sub>>
               /\ proc' = [proc EXCEPT ![u] =
                    [b EXCEPT !.pc = "done", !.ret = "mockMessage", !.flt = @ \/ fail,
                              !.insertFailed = TRUE]]
          ELSE /\ CanNotifyMessage
               /\ msgCount' = msgCount + 1
               /\ messages' = messages \cup {MessageRow(msgCount + 1, r, u, c, now, rep)}
               /\ sub' = NotifyMessage
               /\ proc' = [proc EXCEPT ![u] =
                    [b EXCEPT !.pc = "done", !.ret = "message", !.wrote = TRUE]]
  /\ UNCHANGED <<rooms, participants, currentRoom, now, typing, typingLog>>

\* getMessages: msg => ({ id, userId, username, content, createdAt })
HistoryEntry(m) ==
  [id |-> m.id, userId |-> m.user_id, username |-> m.username, content |-> m.content,
   createdAt |-> m.created_at]

\* select('*').order('created_at', { ascending: true }) over a set of rows: the
\* rows, each once, in an order that never goes down in created_at
OrderedByCreatedAt(rows) ==
  {h \in [1..Cardinality(rows) -> rows] :
     /\ \A i, k \in 1..Cardinality(rows) : i < k => h[i] # h[k]
     /\ \A i, k \in 1..Cardinality(rows) : i < k => h[i].created_at <= h[k].created_at}

\* getMessages(): the whole messages table in created_at order; an error gives [].
\* The function takes no parameter: the roomId the chat page passes is dropped.
GetMessages(u) ==
  /\ CanStart(u)
  /\ calls' = calls + 1
  /\ \E r \in RoomIds, fail \in FaultChoice :
       /\ faults' = IF fail THEN faults + 1 ELSE faults
       /\ \E h \in OrderedByCreatedAt(IF fail THEN {} ELSE MessagesVisibleTo(u)) :
            proc' = [proc EXCEPT ![u] =
              [Begin(u, "getMessages", FALSE, r) EXCEPT
                 !.pc = "done", !.ret = "list", !.flt = fail,
                 !.history = [i \in DOMAIN h |-> HistoryEntry(h[i])]]]
  /\ UNCHANGED <<rooms, participants, messages, currentRoom, msgCount, chatState>>

\* the call has returned; the session is free for its next call
Return(u) ==
  /\ proc[u].pc = "done"
  /\ proc' = [proc EXCEPT ![u] = Idle]
  /\ UNCHANGED <<rooms, participants, messages, currentRoom, calls, faults, msgCount, chatState>>

\* ----------------------------------------------------------- lib/typing.ts

TypingRow(r, u, t, at) ==
  [room_id |-> r, user_id |-> u, username |-> Username(u), is_typing |-> t,
   updated_at |-> at]

\* upsert(..., { onConflict: 'room_id,user_id' })
TypingAfterUpsert(rows, row) ==
  {x \in rows : ~(x.room_id = row.room_id /\ x.user_id = row.user_id)} \cup {row}

\* user_typing: room_id REFERENCES rooms(id)
TypingInsertAllowed(r) == RoomExists(r)

\* AFTER INSERT OR UPDATE ON user_typing:
\* DELETE FROM user_typing WHERE updated_at < NOW() - INTERVAL '30 seconds'
clear_stale_typing_status(rows, t) == {x \in rows : ~(x.updated_at < t - StaleAfter)}

\* delete().eq('room_id', roomId).eq('user_id', userId)
TypingAfterClear(rows, r, u) == {x \in rows : ~(x.room_id = r /\ x.user_id = u)}

\* mutant: the query without its updated_at filter
TypingUsersQuery_anyAge(rows, r, me, t) ==
  {x.username : x \in {y \in rows : y.room_id = r /\ y.is_typing /\ y.user_id # me}}

\* select username where room_id = roomId, is_typing = true, user_id <> currentUserId,
\* updated_at >= Date.now() - 10000; then data.map(user => user.username)
TypingUsersQuery(rows, r, me, t) ==
  {x.username : x \in {y \in rows : /\ y.room_id = r
                                     /\ y.is_typing
                                     /\ y.user_id # me
                                     /\ y.updated_at >= t - TypingWindow}}

\* setTypingStatus(roomId, user, isTyping): one upsert, whose error nobody reads
SetTypingStatus(u) ==
  /\ CanStart(u)
  /\ calls' = calls + 1
  /\ \E r \in RoomIds, t \in BOOLEAN, fail \in FaultChoice :
       LET row == TypingRow(r, u, t, now) IN
       /\ faults' = IF fail THEN faults + 1 ELSE faults
       /\ IF fail \/ ~TypingInsertAllowed(r)
          THEN UNCHANGED <<typing, typingLog, sub>>
          ELSE /\ CanNotifyTyping(r)
               /\ typing' = clear_stale_typing_status(TypingAfterUpsert(typing, row), now)
               /\ typingLog' = TypingAfterUpsert(typingLog, row)
               /\ sub' = NotifyTyping(r)
       /\ proc' = [proc EXCEPT ![u] =
            [Begin(u, "setTypingStatus", FALSE, r) EXCEPT
               !.pc = "done", !.ret = "void", !.flt = fail]]
  /\ UNCHANGED <<rooms, participants, messages, currentRoom, msgCount, now>>

\* getTypingUsers(roomId, currentUserId): an error gives []
GetTypingUsers(u) ==
  /\ CanStart(u)
  /\ calls' = calls + 1
  /\ \E r \in RoomIds, fail \in FaultChoice :
       /\ faults' = IF fail THEN faults + 1 ELSE faults
       /\ proc' = [proc EXCEPT ![u] =
            [Begin(u, "getTypingUsers", FALSE, r) EXCEPT
               !.pc = "done", !.ret = "list", !.flt = fail,
               !.names = IF fail THEN {} ELSE TypingUsersQuery(typing, r, u, now)]]
  /\ UNCHANGED <<rooms, participants, messages, currentRoom, msgCount, chatState>>

\* clearTypingStatus(roomId, userId)
ClearTypingStatus(u) ==
  /\ CanStart(u)
  /\ calls' = calls + 1
  /\ \E r \in RoomIds, fail \in FaultChoice :
       /\ faults' = IF fail THEN faults + 1 ELSE faults
       /\ IF fail
          THEN UNCHANGED <<typing, typingLog, sub>>
          ELSE /\ CanNotifyTyping(r)
               /\ typing' = TypingAfterClear(typing, r, u)
               /\ typingLog' = TypingAfterClear(typingLog, r, u)
               /\ sub' = IF TypingAfterClear(typing, r, u) # typing
                         THEN NotifyTyping(r) ELSE sub
       /\ proc' = [proc EXCEPT ![u] =
            [Begin(u, "clearTypingStatus", FALSE, r) EXCEPT
               !.pc = "done", !.ret = "void", !.flt = fail]]
  /\ UNCHANGED <<rooms, participants, messages, currentRoom, msgCount, now>>

\* time passes between two steps
Tick ==
  /\ NoneDone
  /\ \E d \in TickSteps :
       /\ now + d <= MaxTime
       /\ now' = now + d
  /\ UNCHANGED <<rooms, participants, messages, currentRoom, proc, calls, faults,
                 msgCount, typing, typingLog, sub>>

\* ------------------------------------------------ pages/chat/[roomId].tsx

\* The effect of the chat page for the session's room: fetchInitialData() runs
\* up to its first await, subscribeToRoomMessages joins the channel, and
\* subscribeToTypingStatus sends its first getTypingUsers and joins its channel.
PageOpen(u) ==
  /\ sub[u].view = "closed"
  /\ currentRoom[u] # None
  /\ sub' = [sub EXCEPT ![u] =
       [@ EXCEPT !.view = "admin", !.fetched = <<>>, !.shown = <<>>,
                 !.got = {}, !.hist = {},
                 !.msg = "joined", !.msgInbox = 0,
                 !.typ = "joined", !.room = currentRoom[u], !.typInbox = 0,
                 !.typingUsers = {},
                 !.typReplies = {TypingUsersQuery(typing, currentRoom[u], u, now)}]]
  /\ UNCHANGED <<rooms, participants, messages, currentRoom, proc, calls, faults,
                 msgCount, now, typing, typingLog>>

\* fetchInitialData: `await isRoomAdmin(...)`, then `await fetch(/api/rooms/id)`
\* resolve; neither touches the message list
PageAwait(u, at, next) ==
  /\ sub[u].view = at
  /\ sub' = [sub EXCEPT ![u].view = next]
  /\ UNCHANGED <<rooms, participants, messages, currentRoom, proc, calls, faults,
                 msgCount, now, typing, typingLog>>

\* fetchInitialData: the store answers the select of getMessages; the answer is
\* on its way to the page
PageMessagesRead(u) ==
  /\ sub[u].view = "messages"
  /\ \E h \in OrderedByCreatedAt(MessagesVisibleTo(u)) :
       sub' = [sub EXCEPT ![u].view = "reply",
                          ![u].fetched = [i \in DOMAIN h |-> HistoryEntry(h[i]).id]]
  /\ UNCHANGED <<rooms, participants, messages, currentRoom, proc, calls, faults,
                 msgCount, now, typing, typingLog>>

\* fetchInitialData: `setMessages(fetchedMessages)`, then setIsLoading(false)
PageMessagesShown(u) ==
  /\ sub[u].view = "reply"
  /\ sub' = [sub EXCEPT ![u].view = "loaded", ![u].shown = sub[u].fetched,
                        ![u].hist = {sub[u].fetched[i] : i \in DOMAIN sub[u].fetched},
                        ![u].fetched = <<>>]
  /\ UNCHANGED <<rooms, participants, messages, currentRoom, proc, calls, faults,
                 msgCount, now, typing, typingLog>>

\* the id of the oldest INSERT the channel has not handed over: inserts are
\* notified in the order of their ids
OldestPending(u) == msgCount - sub[u].msgInbox + 1

\* the channel hands one INSERT to the page's callback:
\* `setMessages((prev) => [...prev, newMessage])`
PageDeliver(u) ==
  /\ sub[u].view # "closed"
  /\ sub[u].msg = "joined"
  /\ sub[u].msgInbox > 0
  /\ sub' = [sub EXCEPT ![u].msgInbox = @ - 1,
                        ![u].shown = Append(@, OldestPending(u)),
                        ![u].got = @ \cup {OldestPending(u)}]
  /\ UNCHANGED <<rooms, participants, messages, currentRoom, proc, calls, faults,
                 msgCount, now, typing, typingLog>>

\* the typing channel hands one change to its handler, which sends
\* getTypingUsers; the store answers with the rows as they are now
PageTypingEvent(u) ==
  /\ sub[u].view # "closed"
  /\ sub[u].typ = "joined"
  /\ sub[u].typInbox > 0
  /\ sub' = [sub EXCEPT ![u].typInbox = @ - 1,
                        ![u].typReplies =
                          @ \cup {TypingUsersQuery(typing, sub[u].room, u, now)}]
  /\ UNCHANGED <<rooms, participants, messages, currentRoom, proc, calls, faults,
                 msgCount, now, typing, typingLog>>

\* an answer of getTypingUsers arrives, whichever was sent first:
\* callback(users), that is `setTypingUsers(users)`
PageTypingReply(u) ==
  /\ sub[u].view # "closed"
  /\ \E users \in sub[u].typReplies :
       sub' = [sub EXCEPT ![u].typingUsers = users, ![u].typReplies = @ \ {users}]
  /\ UNCHANGED <<rooms, participants, messages, currentRoom, proc, calls, faults,
                 msgCount, now, typing, typingLog>>

\* the cleanup of the effect: both unsubscribes, then clearTypingStatus; the
\* component's state is gone
PageClose(u) ==
  /\ sub[u].view # "closed"
  /\ LET r == sub[u].room
         cleared == TypingAfterClear(typing, r, u)
         told == IF cleared # typing THEN NotifyTyping(r) ELSE sub
     IN
     /\ cleared # typing => CanNotifyTyping(r)
     /\ typing' = cleared
     /\ typingLog' = TypingAfterClear(typingLog, r, u)
     /\ sub' = [told EXCEPT ![u] =
          [MessagesUnsubscribed(TypingUnsubscribed(sub[u])) EXCEPT
             !.view = "closed", !.fetched = <<>>, !.shown = <<>>, !.got = {},
             !.hist = {}, !.typingUsers = {}, !.typReplies = {}]]
  /\ UNCHANGED <<rooms, participants, messages, currentRoom, proc, calls, faults,
                 msgCount, now>>

\* handleMessageInputChange: the first keystroke of a burst sends
\* setTypingStatus(true); every keystroke replaces the timer.  A keystroke in
\* the second in which the timer is due comes after the timer.
Keystroke(u) ==
  /\ NoneDone
  /\ sub[u].view # "closed"
  /\ sub[u].timer = NoTimer \/ now < sub[u].timer
  /\ now + TypingPause <= MaxTime
  /\ LET r == sub[u].room
         row == TypingRow(r, u, TRUE, now)
         typed == [sub EXCEPT ![u].isTyping = TRUE, ![u].timer = now + TypingPause]
     IN
     IF sub[u].isTyping \/ ~TypingInsertAllowed(r)
     THEN /\ sub' = typed
          /\ UNCHANGED <<typing, typingLog>>
     ELSE /\ CanNotifyTyping(r)
          /\ typing' = clear_stale_typing_status(TypingAfterUpsert(typing, row), now)
          /\ typingLog' = TypingAfterUpsert(typingLog, row)
          /\ sub' = [v \in Users |->
               IF sub[v].typ = "joined" /\ sub[v].room = r
               THEN [typed[v] EXCEPT !.typInbox = @ + 1] ELSE typed[v]]
  /\ UNCHANGED <<rooms, participants, messages, currentRoom, proc, calls, faults,
                 msgCount, now>>

\* the timer of typingTimerRef fires: setIsTyping(false), setTypingStatus(false)
TypingTimerFires(u) ==
  /\ NoneDone
  /\ sub[u].view # "closed"
  /\ sub[u].timer # NoTimer
  /\ now >= sub[u].timer
  /\ LET r == sub[u].room
         row == TypingRow(r, u, FALSE, now)
         stopped == [sub EXCEPT ![u].isTyping = FALSE, ![u].timer = NoTimer]
     IN
     IF ~TypingInsertAllowed(r)
     THEN /\ sub' = stopped
          /\ UNCHANGED <<typing, typingLog>>
     ELSE /\ CanNotifyTyping(r)
          /\ typing' = clear_stale_typing_status(TypingAfterUpsert(typing, row), now)
          /\ typingLog' = TypingAfterUpsert(typingLog, row)
          /\ sub' = [v \in Users |->
               IF sub[v].typ = "joined" /\ sub[v].room = r
               THEN [stopped[v] EXCEPT !.typInbox = @ + 1] ELSE stopped[v]]
  /\ UNCHANGED <<rooms, participants, messages, currentRoom, proc, calls, faults,
                 msgCount, now>>

\* time passes, up to the next timer that is due
KeyTick ==
  /\ NoneDone
  /\ \E d \in KeySteps :
       /\ now + d <= MaxTime
       /\ \A u \in Users : sub[u].timer # NoTimer => now + d <= sub[u].timer
       /\ now' = now + d
  /\ UNCHANGED <<rooms, participants, messages, currentRoom, proc, calls, faults,
                 msgCount, typing, typingLog, sub>>

\* ------------------------------------------------------------ the system

Fresh ==
  /\ messages = {}
  /\ proc = [u \in Users |-> Idle]
  /\ calls = 0
  /\ faults = 0
  /\ msgCount = 0
  /\ now = 0
  /\ typing = {}
  /\ typingLog = {}
  /\ sub = [u \in Users |-> NoSubscription]

\* an empty store
Init ==
  /\ rooms = {}
  /\ participants = {}
  /\ currentRoom = [u \in Users |-> None]
  /\ Fresh

\* Room r1 after createRoom by b1 and joinRoom by b2 .. b9: one seat short of
\* MaxParticipants - 1 further joins fill it.  The background users take no
\* further step.
InitNearlyFull ==
  /\ rooms = {RoomRow("r1", "pA", "b1")}
  /\ participants = {ParticipantRow("r1", "b1", TRUE)}
       \cup {ParticipantRow("r1", b, FALSE) : b \in Background \ {"b1"}}
  /\ currentRoom = [u \in Users |-> None]
  /\ Fresh

\* Room r1 after createRoom by u1, joinRoom by u2 and u3, and
\* addRoomAdmin(r1, u1, u2).
InitAdmins ==
  /\ rooms = {RoomRow("r1", "pA", "u1")}
  /\ participants = {ParticipantRow("r1", "u1", TRUE), ParticipantRow("r1", "u2", TRUE),
                     ParticipantRow("r1", "u3", FALSE)}
  /\ currentRoom = [u \in Users |-> IF u = "u1" THEN None ELSE "r1"]
  /\ Fresh

CreateRoom(u) == CreateRoomRpc(u) \/ CreateRoomInsert(u) \/ CreateRoomParticipant(u)

JoinRoom(u) == JoinRoomLookup(u) \/ JoinRoomCheck(u) \/ JoinRoomCount(u) \/ JoinRoomInsert(u)

UpdateRoomSettings(u) == UpdateRoomSettingsCheck(u) \/ UpdateRoomSettingsUpdate(u)

DeleteRoom(u) ==
  DeleteRoomCheck(u) \/ DeleteRoomMessages(u) \/ DeleteRoomParticipants(u) \/ DeleteRoomRow(u)

RemoveUserFromRoom(u) == RemoveUserCheck(u) \/ RemoveUserTarget(u) \/ RemoveUserDelete(u)

AddRoomAdmin(u) == AddRoomAdminCheck(u) \/ AddRoomAdminUpdate(u)

PutRoom(u) == PutRoomCheck(u) \/ PutRoomUpdate(u)

HttpDeleteRoom(u) ==
  \/ HttpDeleteRoomCheck(u) \/ HttpDeleteRoomParticipants(u)
  \/ HttpDeleteRoomMessages(u) \/ HttpDeleteRoomRow(u)

HttpRemove(u) == HttpRemoveCheck(u) \/ HttpRemoveTarget(u) \/ HttpRemoveDelete(u)

PostAdmin(u) == PostAdminCheck(u) \/ PostAdminUpdate(u)

Next ==
  \E u \in Users :
    \/ CreateRoom(u)
    \/ JoinRoom(u)
    \/ UpdateRoomSettings(u)
    \/ DeleteRoom(u)
    \/ RemoveUserFromRoom(u)
    \/ AddRoomAdmin(u)
    \/ PutRoom(u)
    \/ HttpDeleteRoom(u)
    \/ HttpRemove(u)
    \/ PostAdmin(u)
    \/ GetRoom(u)
    \/ SendMessage(u)
    \/ Return(u)

Spec == Init /\ [][Next]_vars

\* createRoom, joinRoom and removeUserFromRoom on a room that is nearly full
NextJoin ==
  \E u \in Users :
    \/ CreateRoom(u)
    \/ JoinRoom(u)
    \/ RemoveUserFromRoom(u)
    \/ HttpRemove(u)
    \/ Return(u)

SpecNearlyFull == InitNearlyFull /\ [][NextJoin]_vars

SpecAdmins == InitAdmins /\ [][Next]_vars

\* Room r1 after createRoom by u1 and joinRoom by u2 and u3; nobody has typed.
InitTyping ==
  /\ rooms = {RoomRow("r1", "pA", "u1")}
  /\ participants = {ParticipantRow("r1", "u1", TRUE), ParticipantRow("r1", "u2", FALSE),
                     ParticipantRow("r1", "u3", FALSE)}
  /\ currentRoom = [u \in Users |-> "r1"]
  /\ Fresh

\* the typing indicators of the chat page, while time passes
NextTyping ==
  \/ \E u \in Users :
       \/ SetTypingStatus(u)
       \/ GetTypingUsers(u)
       \/ ClearTypingStatus(u)
       \/ Return(u)
  \/ Tick

SpecTyping == InitTyping /\ [][NextTyping]_vars

\* the subscriptions of the chat page, while another participant types and sends
NextSubs ==
  \/ \E u \in Subscribers :
       \/ SubscribeToMessages(u)
       \/ UnsubscribeMessages(u)
       \/ DeliverMessage(u)
       \/ SubscribeToTypingStatus(u)
       \/ UnsubscribeTyping(u)
       \/ TypingEvent(u)
       \/ TypingFetchDone(u)
       \/ OrphanedFetchDone(u)
  \/ \E u \in Users \ Subscribers :
       \/ SetTypingStatus(u)
       \/ SendMessage(u)
       \/ Return(u)

SpecSubs == InitTyping /\ [][NextSubs]_vars

\* Rooms r1 (created by u1, joined by u2) and r2 (created by u3, joined by u2),
\* no message sent yet.
InitChat ==
  /\ rooms = {RoomRow("r1", "pA", "u1"), RoomRow("r2", "pB", "u3")}
  /\ participants = {ParticipantRow("r1", "u1", TRUE), ParticipantRow("r1", "u2", FALSE),
                     ParticipantRow("r2", "u3", TRUE), ParticipantRow("r2", "u2", FALSE)}
  /\ currentRoom = [u \in Users |-> IF u = "u2" THEN "r2" ELSE None]
  /\ Fresh

\* sending and reading messages in two rooms, while time passes
NextChat ==
  \/ \E u \in Users :
       \/ SendMessage(u)
       \/ GetMessages(u)
       \/ GetRoom(u)
       \/ Return(u)
  \/ Tick

SpecChat == InitChat /\ [][NextChat]_vars

\* the chat page of one participant, while the others send and type
NextPage ==
  \/ \E u \in Viewers :
       \/ PageOpen(u)
       \/ PageAwait(u, "admin", "room")
       \/ PageAwait(u, "room", "messages")
       \/ PageMessagesRead(u)
       \/ PageMessagesShown(u)
       \/ PageDeliver(u)
       \/ PageTypingEvent(u)
       \/ PageTypingReply(u)
       \/ PageClose(u)
  \/ \E u \in Users \ Viewers :
       \/ SendMessage(u)
       \/ SetTypingStatus(u)
       \/ Return(u)

SpecPage == InitTyping /\ [][NextPage]_vars

\* the typing list of the chat page, while the other participants type and
\* time passes
NextPageClock ==
  \/ \E u \in Viewers :
       \/ PageOpen(u)
       \/ PageAwait(u, "admin", "room")
       \/ PageAwait(u, "room", "messages")
       \/ PageMessagesRead(u)
       \/ PageMessagesShown(u)
       \/ PageTypingEvent(u)
       \/ PageTypingReply(u)
       \/ PageClose(u)
  \/ \E u \in Users \ Viewers :
       \/ SetTypingStatus(u)
       \/ Return(u)
  \/ Tick

SpecPageClock == InitTyping /\ [][NextPageClock]_vars

\* InitTyping after u2 has opened the chat page of r1 and its loading has
\* finished
InitKeys ==
  /\ rooms = {RoomRow("r1", "pA", "u1")}
  /\ participants = {ParticipantRow("r1", "u1", TRUE), ParticipantRow("r1", "u2", FALSE),
                     ParticipantRow("r1", "u3", FALSE)}
  /\ currentRoom = [u \in Users |-> "r1"]
  /\ messages = {}
  /\ proc = [u \in Users |-> Idle]
  /\ calls = 0
  /\ faults = 0
  /\ msgCount = 0
  /\ now = 0
  /\ typing = {}
  /\ typingLog = {}
  /\ sub = [u \in Users |->
       IF u # "u2" THEN NoSubscription
       ELSE [NoSubscription EXCEPT !.view = "loaded", !.msg = "joined",
                                   !.typ = "joined", !.room = "r1"]]

\* participants typing into the message input while the viewer asks who types
NextKeys ==
  \/ \E u \in Users \ Viewers :
       \/ Keystroke(u)
       \/ TypingTimerFires(u)
       \/ PageTypingEvent(u)
       \/ PageTypingReply(u)
  \/ \E u \in Viewers :
       \/ GetTypingUsers(u)
       \/ Return(u)
  \/ KeyTick

SpecKeys == InitKeys /\ [][NextKeys]_vars

\* sending and reading in room r1 while its admins remove participants
NextAccess ==
  \E u \in Users :
    \/ RemoveUserFromRoom(u)
    \/ SendMessage(u)
    \/ GetMessages(u)
    \/ Return(u)

SpecAccess == InitAdmins /\ [][NextAccess]_vars

TypeOK ==
  /\ \A x \in rooms : x.id \in RoomIds /\ x.password \in Passwords
  /\ \A p \in participants : p.room_id \in RoomIds /\ p.is_admin \in BOOLEAN
  /\ calls \in 0..MaxCalls
  /\ faults \in 0..MaxFaults

\* ============================================================ properties

IsCall(u, names) == proc[u].op \in names

Returned(u, names) == IsCall(u, names) /\ proc[u].pc = "done"

\* a createRoom call from its insert into rooms up to its return of {roomId, password}
Created(u) ==
  /\ IsCall(u, {"createRoom"})
  /\ \/ proc[u].pc = "cr_participant"
     \/ proc[u].pc = "done" /\ proc[u].ret = "room"

RemoveCalls == {"removeUserFromRoom", "DELETE participant"}
DeleteCalls == {"deleteRoom", "DELETE room"}
AdminCalls ==
  {"updateRoomSettings", "deleteRoom", "removeUserFromRoom", "addRoomAdmin",
   "PUT room", "DELETE room", "DELETE participant", "POST participant"}

\* C1: no room ever has more than 10 room_participants rows, for any
\* interleaving of createRoom, joinRoom and removeUserFromRoom calls.
C1_CapacityNeverExceeded ==
  \A r \in RoomIds : Cardinality(RoomParticipants(r)) <= MaxParticipants

\* C2: every rooms row has at least one room_participants row with
\* is_admin = TRUE, in every reachable state.
C2_AdminSetNeverEmpty ==
  \A x \in rooms : \E p \in participants : p.room_id = x.id /\ p.is_admin = TRUE

C4_UniqueRoomIds ==
  \A u \in Users :
    Created(u) =>
      /\ ~proc[u].factRoom
      /\ Cardinality({x \in rooms : x.id = proc[u].room}) = 1
      /\ \A x \in rooms : x.id = proc[u].room => x.created_by = u
      /\ \A v \in Users \ {u} : Created(v) => proc[v].room # proc[u].room

\* two calls drew the same id; one inserted it, the other was refused
C4_Witness ==
  \E u, v \in Users :
    /\ u # v
    /\ Created(u)
    /\ Returned(v, {"createRoom"}) /\ proc[v].ret = "null" /\ ~proc[v].flt
    /\ proc[v].room = proc[u].room

\* C5: a joinRoom with the correct password by a user who already holds a row
\* of the room returns true and writes nothing, whatever the participant
\* count; a joinRoom that returns true leaves exactly one row (roomId, userId);
\* a joinRoom with the correct password is refused only for a user without a
\* row, when the room is full or has been deleted meanwhile.
C5_JoinIdempotent ==
  \A u \in Users :
    (Returned(u, {"joinRoom"}) /\ proc[u].factMatch /\ ~proc[u].flt) =>
      /\ proc[u].factMember => (proc[u].ret = "true" /\ ~proc[u].wrote)
      /\ proc[u].ret = "true" => Cardinality(ParticipantRows(proc[u].room, u)) = 1
      /\ proc[u].ret = "false" =>
           /\ ~proc[u].factMember
           /\ \/ proc[u].factCount >= MaxParticipants
              \/ ~RoomExists(proc[u].room)

\* the second joinRoom of a user, in a room that holds 10 participants
C5_Witness ==
  \E u \in Users :
    /\ Returned(u, {"joinRoom"}) /\ proc[u].factMatch /\ ~proc[u].flt
    /\ proc[u].factMember /\ proc[u].ret = "true"
    /\ currentRoom[u] = proc[u].room
    /\ Cardinality(RoomParticipants(proc[u].room)) = MaxParticipants

\* C6: a joinRoom with the correct password by a user without a row, whose
\* count finds 10 or more rows, returns false, writes no row and leaves the
\* caller's current room as it was.
C6_FullRoomRefuses ==
  \A u \in Users :
    (IsCall(u, {"joinRoom"}) /\ proc[u].factMatch /\ ~proc[u].factMember
       /\ proc[u].factCount >= MaxParticipants) =>
      /\ proc[u].pc = "done"
      /\ proc[u].ret = "false"
      /\ ~proc[u].wrote
      /\ currentRoom[u] = proc[u].curBefore

C6_Witness ==
  \E u \in Users :
    /\ Returned(u, {"joinRoom"}) /\ proc[u].factMatch /\ ~proc[u].factMember
    /\ proc[u].factCount = MaxParticipants
    /\ Cardinality(RoomParticipants(proc[u].room)) = MaxParticipants
    /\ proc[u].ret = "false"

\* what the caller of joinRoom can observe of the call
JoinOutcome(u) ==
  [ret |-> proc[u].ret, wrote |-> proc[u].wrote,
   currentRoomChanged |-> currentRoom[u] # proc[u].curBefore]

\* C7: a joinRoom for which no rooms row has both the id and the password ends
\* at once with the same outcome, whether or not a rooms row with the id
\* exists: false, no row written, current room unchanged.
C7_JoinFailureUniform ==
  \A u \in Users :
    (IsCall(u, {"joinRoom"}) /\ ~proc[u].factMatch) =>
      /\ proc[u].pc = "done"
      /\ JoinOutcome(u) = [ret |-> "false", wrote |-> FALSE, currentRoomChanged |-> FALSE]

\* the wrong password for a room that exists
C7_Witness ==
  \E u \in Users :
    /\ Returned(u, {"joinRoom"}) /\ ~proc[u].factMatch /\ proc[u].factRoom
    /\ proc[u].ret = "false"

\* C8: an admin-only operation whose caller holds no is_admin = TRUE row of
\* the room ends at its admin check with false (403 for a handler) and has
\* changed no rooms, room_participants or messages row.
C8_NonAdminDenied ==
  \A u \in Users :
    (IsCall(u, AdminCalls) /\ ~proc[u].factAdmin) =>
      /\ proc[u].pc = "done"
      /\ proc[u].ret = (IF proc[u].api THEN "403" ELSE "false")
      /\ ~proc[u].wrote

\* a participant who is no admin called updateRoomSettings
C8_Witness ==
  \E u \in Users :
    /\ Returned(u, {"updateRoomSettings"}) /\ ~proc[u].factAdmin
    /\ \E p \in participants : p.room_id = proc[u].room /\ p.user_id = u
    /\ proc[u].ret = "false"
    /\ \A x \in rooms : x.id = proc[u].room =>
         x.name = DefaultRoomName(x.id) /\ x.description = None

\* C9: a RemoveParticipant call by an admin returns failure and deletes no row
\* when the target is the caller or the target's row has is_admin = TRUE; it
\* deletes a row only of a different user whose row is not an admin row.
C9_RemoveRejectsSelfAndAdmins ==
  \A u \in Users :
    (Returned(u, RemoveCalls) /\ proc[u].factAdmin /\ ~proc[u].flt) =>
      /\ (proc[u].target = u \/ proc[u].factTargetAdmin) =>
           (proc[u].ret = (IF proc[u].api THEN "403" ELSE "false") /\ ~proc[u].wrote)
      /\ proc[u].wrote => (proc[u].target # u /\ ~proc[u].factTargetAdmin)

C11_ParticipantFailureSurfaced ==
  \A u \in Users :
    (Returned(u, {"createRoom"}) /\ proc[u].insertFailed) => proc[u].ret = "null"

\* C12: when joinRoom has returned true, the caller's current room is the
\* room joined, on the fresh-join path and on the already-a-participant path.
C12_CurrentRoomSetOnJoin ==
  \A u \in Users :
    (Returned(u, {"joinRoom"}) /\ proc[u].ret = "true") => currentRoom[u] = proc[u].room

C14_UnsubscribeStopsCallbacks ==
  \A u \in Users : sub[u].late = {} /\ ~sub[u].repeatChanged

\* C15: a history fetch for a room returns exactly the stored messages of
\* that room, each once, in ascending created_at order; no message of
\* another room is included.
C15_HistoryOfTheRoomOnly ==
  \A u \in Users :
    (Returned(u, {"getMessages"}) /\ ~proc[u].flt) =>
      LET h == proc[u].history IN
      /\ {h[i].id : i \in DOMAIN h} = {m.id : m \in RoomMessages(proc[u].room)}
      /\ \A i, k \in DOMAIN h : i < k => h[i].id # h[k].id
      /\ \A i, k \in DOMAIN h : i < k => h[i].createdAt <= h[k].createdAt

\* C16: a sendMessage whose insert the store answered with an error reports
\* failure (null); it never hands back a message object.
C16_SendFailureReported ==
  \A u \in Users :
    (Returned(u, {"sendMessage"}) /\ proc[u].insertFailed) => proc[u].ret = "null"

\* C17: no two rooms have the same password.
C17_PasswordsUnique ==
  \A x, y \in rooms : x.id # y.id => x.password # y.password

\* C18: GET /api/rooms/[id] answers 404 for an id without a rooms row and
\* 200 with the room's details for an id with one.
C18_GetRoomNotFound ==
  \A u \in Users :
    (Returned(u, {"GET room"}) /\ ~proc[u].flt) =>
      IF proc[u].factRoom
      THEN /\ proc[u].ret = "200"
           /\ \E x \in rooms : x.id = proc[u].room /\ proc[u].history = <<RoomDetails(x)>>
      ELSE proc[u].ret = "404"

\* C19: in a history, the entry of a message that was sent with a replyToId
\* pointing at a stored message of its room carries a reply preview with that
\* message's username and content; without such a message the entry is there
\* all the same, without a preview.
C19_ReplyPreviewRoundTrip ==
  \A u \in Users :
    (Returned(u, {"getMessages"}) /\ ~proc[u].flt) =>
      LET h == proc[u].history IN
      /\ \A m \in RoomMessages(proc[u].room) : \E i \in DOMAIN h : h[i].id = m.id
      /\ \A i \in DOMAIN h : \A m \in messages :
           h[i].id = m.id =>
             IF \E o \in RoomMessages(m.room_id) : o.id = m.asked_reply_to
             THEN /\ "replyToMessage" \in DOMAIN h[i]
                  /\ \A o \in RoomMessages(m.room_id) :
                       o.id = m.asked_reply_to =>
                         /\ h[i].replyToMessage.username = o.username
                         /\ h[i].replyToMessage.content = o.content
             ELSE "replyToMessage" \notin DOMAIN h[i]

\* C20: a step of a DeleteRoom execution (deleteRoom or the DELETE handler)
\* deletes room_participants rows of its room only when no messages row of
\* the room exists, and deletes the rooms row only when neither messages nor
\* room_participants rows of the room exist.
C20_DeleteInDependencyOrder ==
  [][\A u \in Users :
       (IsCall(u, DeleteCalls) /\ proc'[u] # proc[u]) =>
         LET r == proc[u].room IN
         /\ (\E p \in participants : p.room_id = r /\ p \notin participants') =>
              RoomMessages(r) = {}
         /\ (\E x \in rooms : x.id = r /\ x \notin rooms') =>
              RoomMessages(r) = {} /\ RoomParticipants(r) = {}]_vars

C22_CollisionNeverFails ==
  \A u \in Users :
    (Returned(u, {"createRoom"}) /\ proc[u].ret = "null") => proc[u].flt

\* C23: the message list a chat page displays never holds the same message id
\* twice.
C23_NoDuplicateOnDisplay ==
  \A u \in Users :
    \A i, k \in DOMAIN sub[u].shown : i # k => sub[u].shown[i] # sub[u].shown[k]

\* C29: once the initial load of a chat page has finished, every message of
\* the history it fetched and every message handed to its subscription
\* callback is in the displayed list.
C29_NoMessageLostFromView ==
  \A u \in Users :
    sub[u].view = "loaded" =>
      \A id \in sub[u].hist \cup sub[u].got : \E i \in DOMAIN sub[u].shown : sub[u].shown[i] = id

\* C24: when a chat page's typing subscription has nothing left to handle (no
\* change waiting in the channel, no getTypingUsers answer on its way), the
\* list last passed to its callback is what getTypingUsers gives on the
\* user_typing rows as they are.
C24_TypingListIsFresh ==
  \A u \in Users :
    (sub[u].view # "closed" /\ sub[u].typInbox = 0 /\ sub[u].typReplies = {}) =>
      sub[u].typingUsers = TypingUsersQuery(typing, sub[u].room, u, now)

\* C25: the delete step of a RemoveParticipant call (removeUserFromRoom or
\* the DELETE participants handler) whose reads the store answered without
\* error never deletes a row that has is_admin = TRUE when it is deleted.
C25_RemoveNeverDeletesAdmin ==
  [][\A u \in Users :
       (proc[u].op \in RemoveCalls /\ ~proc[u].flt /\ proc'[u] # proc[u]) =>
         \A p \in participants :
           (p \notin participants' /\ p.room_id = proc[u].room
              /\ p.user_id = proc[u].target) => p.is_admin = FALSE]_vars

PromoteCalls == {"addRoomAdmin", "POST participant"}

\* C26: a step of addRoomAdmin or of the POST participants handler leaves the
\* number of room_participants rows of the room as it was, and when the step
\* ends the call with success, the store holds the row (roomId, newAdminId)
\* with is_admin = TRUE.
C26_PromoteSuccessMeansAdmin ==
  [][\A u \in Users :
       (proc'[u].op \in PromoteCalls /\ proc'[u] # proc[u]) =>
         /\ Cardinality({p \in participants' : p.room_id = proc'[u].room})
              = Cardinality({p \in participants : p.room_id = proc'[u].room})
         /\ (proc'[u].pc = "done" /\ proc'[u].ret = (IF proc'[u].api THEN "200" ELSE "true")) =>
              ParticipantRow(proc'[u].room, proc'[u].target, TRUE) \in participants']_vars

\* C27: a chat page whose typing subscription has nothing left to handle does
\* not list a user whose last typing update is older than the cleanup age
\* of 30 seconds (and so older than the 10 second window of getTypingUsers).
C27_StaleTypistLeavesDisplay ==
  \A u, v \in Users :
    (/\ sub[u].view # "closed" /\ sub[u].typInbox = 0 /\ sub[u].typReplies = {}
     /\ \A w \in Users : proc[w].pc = "idle"
     /\ \E x \in typingLog :
          /\ x.room_id = sub[u].room /\ x.user_id = v
          /\ now - x.updated_at > StaleAfter) =>
      Username(v) \notin sub[u].typingUsers

\* C28: while a participant's chat page has isTyping set (the keystrokes of
\* the burst were less than 3 seconds apart and the last one is less than 3
\* seconds old), getTypingUsers of the room by another user returns that
\* participant's username.
C28_TypistStaysListed ==
  \A u, v \in Users :
    (/\ v # u
     /\ sub[u].view # "closed" /\ sub[u].isTyping /\ now < sub[u].timer
     /\ Returned(v, {"getTypingUsers"}) /\ ~proc[v].flt
     /\ proc[v].room = sub[u].room) =>
      Username(u) \in proc[v].names

\* C30: a getMessages for a room by a user who has no room_participants row
\* of it returns no message of that room, and a sendMessage inserts a row
\* only for a sender who has a room_participants row of the room.
C30_MessagesForParticipantsOnly ==
  \A u \in Users :
    /\ (Returned(u, {"getMessages"}) /\ ~proc[u].flt /\ ~HoldsRow(proc[u].room, u)) =>
         \A m \in RoomMessages(proc[u].room) :
           \A i \in DOMAIN proc[u].history : proc[u].history[i].id # m.id
    /\ (Returned(u, {"sendMessage"}) /\ proc[u].wrote) => HoldsRow(proc[u].room, u)

====
